---------------------------- MODULE Spec2Model ----------------------------
(***************************************************************************)
(* A model of the PPASR data pipeline:                                     *)
(*   ppasr/data_utils/reader.py                  PPASRDataset              *)
(*   ppasr/data_utils/featurizer/audio_featurizer.py  AudioFeaturizer      *)
(*   ppasr/data_utils/augmentor/shift_perturb.py  ShiftPerturbAugmentor    *)
(*                                                                         *)
(* Durations are whole seconds, shifts whole milliseconds, sample counts   *)
(* and sample rates are integers.  Collaborators whose code is not part of *)
(* the three files (AudioSegment, AugmentationPipeline, FeatureNormalizer, *)
(* TextFeaturizer) are modelled by what the specification says of them.    *)
(* The interpreter's call stack is taken as unbounded: the depth of the    *)
(* retry chain of __getitem__ is counted and saturates at MaxDepth.        *)
(***************************************************************************)
EXTENDS Integers, Sequences, FiniteSets, TLC

\* ------------------------------------------------------------------ bounds
MaxLines == 2
MaxManifest == 3
MaxDepth == 3
MaxSamples == 1000
RngMod == 4
MaxCalls == 3

\* ------------------------------------------------------- program constants
DefaultStrideMs == 10
DefaultWindowMs == 20
DefaultTargetSampleRate == 16000
DefaultMaxDuration == 20
DefaultMinDuration == 0
LinearDim == 161
MfccDim == 39
FbankDim == 161

VARIABLES
    phase,      \* "new" before PPASRDataset.__init__ has run, "ready" after
    cfg,        \* the arguments of PPASRDataset.__init__
    data_list,  \* PPASRDataset.data_list
    af,         \* the AudioFeaturizer object (PPASRDataset._audio_featurizer)
    ret,        \* the outcome of the last property query (feature_dim, __len__)
    fault,      \* the files: for each audio path, the statement that raises on it
    run,        \* per execution: the state of a __getitem__ call
    fz,         \* the outcome of the last direct AudioFeaturizer.featurize call
    lin,        \* the outcome of the last direct _compute_linear call
    sh          \* a ShiftPerturbAugmentor, its generator and the segment it is given

vars == <<phase, cfg, data_list, af, ret, fault, run, fz, lin, sh>>

\* --------------------------------------------------------- python helpers
Min(a, b) == IF a <= b THEN a ELSE b
Max(a, b) == IF a >= b THEN a ELSE b

\* Python's a % b and a // b for b > 0 (both floor, as TLA+'s % and \div do).
PyMod(a, b) == a % b
PyFloorDiv(a, b) == a \div b

\* len(samples[:stop]) for a buffer of n samples.
PySliceLen(n, stop) == IF stop < 0 THEN Max(0, n + stop) ELSE Min(n, stop)

\* int(0.001 * sample_rate * ms)
MsToSamples(sample_rate, ms) == (sample_rate * ms) \div 1000

\* ------------------------------------------------------- AudioFeaturizer
Methods == {"linear", "mfcc", "fbank", "spectrogram"}
SupportedMethods == {"linear", "mfcc", "fbank"}

NoFeaturizer == [feature_method |-> "", stride_ms |-> 0, window_ms |-> 0,
                 target_sample_rate |-> 0, train |-> FALSE, built |-> FALSE]

\* AudioFeaturizer.__init__: stores its arguments, checks nothing.
AudioFeaturizerInit(feature_method, stride_ms, window_ms, target_sample_rate, train) ==
    [feature_method |-> feature_method, stride_ms |-> stride_ms,
     window_ms |-> window_ms, target_sample_rate |-> target_sample_rate,
     train |-> train, built |-> TRUE]

\* AudioSegment.resample(target): the segment is at the target rate afterwards.
Resample(segment, target) ==
    [sample_rate |-> target,
     num_samples |-> (segment.num_samples * target) \div segment.sample_rate]

\* The frequency bins np.fft.rfft returns for a window of window_size samples.
RfftBins(window_size) == window_size \div 2 + 1

\* ind = np.where(freqs <= sample_rate / 2)[0][-1] + 1, with
\* freqs[k] = sample_rate / window_size * k.
LinearRows(sample_rate, window_size) ==
    LET below == {k \in 0 .. RfftBins(window_size) - 1 :
                     2 * sample_rate * k <= sample_rate * window_size}
    IN  (CHOOSE k \in below : \A j \in below : j <= k) + 1

\* AudioFeaturizer._compute_linear on a buffer of n samples.
ComputeLinear(n, sample_rate, stride_ms, window_ms) ==
    LET stride_size == MsToSamples(sample_rate, stride_ms)
        window_size == MsToSamples(sample_rate, window_ms)
        truncate_size == PyMod(n - window_size, stride_size)
        kept == PySliceLen(n, n - truncate_size)
        cols == PyFloorDiv(kept - window_size, stride_size) + 1
        base == [outcome |-> "ok", stride_size |-> stride_size,
                 window_size |-> window_size, kept |-> kept, rows |-> 0, cols |-> 0]
    IN  IF cols < 0
        THEN [base EXCEPT !.outcome = "ValueError: negative dimensions"]  \* as_strided
        ELSE IF cols < 2
        THEN [base EXCEPT !.outcome = "IndexError"]      \* windows[:, 1] in the assert
        ELSE [base EXCEPT !.rows = LinearRows(sample_rate, window_size), !.cols = cols]

\* dither kept in evaluation mode too.
DitherAlways(f) == 1

\* dither = dither if self.train else 0.0, in tenths.
Dither(f) == IF f.train THEN 1 ELSE 0

\* featurize with the two permissions exchanged.
FeaturizeRateCheckSwapped(f, segment, allow_downsampling, allow_upsampling) ==
    LET resampled == \/ /\ segment.sample_rate > f.target_sample_rate
                        /\ allow_upsampling
                     \/ /\ segment.sample_rate < f.target_sample_rate
                        /\ allow_downsampling
        s1 == IF resampled THEN Resample(segment, f.target_sample_rate) ELSE segment
    IN  [raised |-> s1.sample_rate # f.target_sample_rate,
         resampled |-> resampled, segment |-> s1]

\* AudioFeaturizer.featurize, up to the choice of the extraction method.
FeaturizeRateCheck(f, segment, allow_downsampling, allow_upsampling) ==
    LET resampled == \/ /\ segment.sample_rate > f.target_sample_rate
                        /\ allow_downsampling
                     \/ /\ segment.sample_rate < f.target_sample_rate
                        /\ allow_upsampling
        s1 == IF resampled THEN Resample(segment, f.target_sample_rate) ELSE segment
    IN  [raised |-> s1.sample_rate # f.target_sample_rate,
         resampled |-> resampled, segment |-> s1]

\* AudioFeaturizer.featurize.
Featurize(f, segment, allow_downsampling, allow_upsampling) ==
    LET chk == FeaturizeRateCheck(f, segment, allow_downsampling, allow_upsampling)
        s1 == chk.segment
        base == [outcome |-> "ok", resampled |-> chk.resampled, segment |-> s1,
                 method |-> f.feature_method, shape |-> <<>>]
    IN  IF chk.raised
        THEN [base EXCEPT !.outcome = "ValueError: sample rate"]
        ELSE IF f.feature_method = "linear"
        THEN LET l == ComputeLinear(s1.num_samples, s1.sample_rate,
                                    f.stride_ms, f.window_ms)
             IN  [base EXCEPT !.outcome = l.outcome,
                              !.shape = IF l.outcome = "ok"
                                        THEN <<l.rows, l.cols>> ELSE <<>>]
        ELSE IF f.feature_method \in {"mfcc", "fbank"}
        THEN base
        ELSE [base EXCEPT !.outcome = "Exception"]

\* feature_dim without the deltas of the MFCC.
FeatureDimNoDeltas(f) ==
    IF f.feature_method = "linear" THEN [outcome |-> "ok", val |-> LinearDim]
    ELSE IF f.feature_method = "mfcc" THEN [outcome |-> "ok", val |-> MfccDim \div 3]
    ELSE IF f.feature_method = "fbank" THEN [outcome |-> "ok", val |-> FbankDim]
    ELSE [outcome |-> "Exception", val |-> 0]

\* AudioFeaturizer.feature_dim.
FeatureDim(f) ==
    IF f.feature_method = "linear" THEN [outcome |-> "ok", val |-> LinearDim]
    ELSE IF f.feature_method = "mfcc" THEN [outcome |-> "ok", val |-> MfccDim]
    ELSE IF f.feature_method = "fbank" THEN [outcome |-> "ok", val |-> FbankDim]
    ELSE [outcome |-> "Exception", val |-> 0]

\* ------------------------------------------------------------ PPASRDataset
Paths == {"a.wav", "b.wav"}
Texts == {"ni hao"}
DurationVals == {1, 2, 5, 20, 25}
ManifestLines == [audio_filepath : Paths, text : Texts, duration : DurationVals]

SeqsUpTo(S, n) == UNION {[1 .. k -> S] : k \in 0 .. n}

\* The loop with both comparisons strict the other way: an entry whose duration
\* equals a limit is skipped.
RECURSIVE ReadManifestExclusive(_, _, _)
ReadManifestExclusive(lines, min_duration, max_duration) ==
    IF lines = <<>> THEN <<>>
    ELSE LET line == Head(lines)
             rest == ReadManifestExclusive(Tail(lines), min_duration, max_duration)
         IN  IF line.duration <= min_duration THEN rest
             ELSE IF max_duration # -1 /\ line.duration >= max_duration THEN rest
             ELSE <<(<<line.audio_filepath, line.text>>)>> \o rest

\* The loop of PPASRDataset.__init__ over the lines of the manifest.
RECURSIVE ReadManifest(_, _, _)
ReadManifest(lines, min_duration, max_duration) ==
    IF lines = <<>> THEN <<>>
    ELSE LET line == Head(lines)
             rest == ReadManifest(Tail(lines), min_duration, max_duration)
         IN  IF line.duration < min_duration THEN rest
             ELSE IF max_duration # -1 /\ line.duration > max_duration THEN rest
             ELSE <<(<<line.audio_filepath, line.text>>)>> \o rest

\* PPASRDataset.__len__
DatasetLen(list) == Len(list)

\* PPASRDataset.feature_dim: the value of the owned featurizer.
DatasetFeatureDim(featurizer) == FeatureDim(featurizer)

NoRet == [op |-> "", outcome |-> "", val |-> 0]

\* PPASRDataset.__init__
Construct ==
    /\ phase = "new"
    /\ af' = AudioFeaturizerInit(cfg.feature_method, DefaultStrideMs, DefaultWindowMs,
                                 DefaultTargetSampleRate, cfg.train)
    /\ data_list' = ReadManifest(cfg.manifest, cfg.min_duration, cfg.max_duration)
    /\ phase' = "ready"
    /\ UNCHANGED <<cfg, ret, fault, run, fz, lin, sh>>

\* len(dataset)
QueryLen ==
    /\ phase = "ready"
    /\ ret' = [op |-> "PPASRDataset.__len__", outcome |-> "ok",
               val |-> DatasetLen(data_list)]
    /\ UNCHANGED <<phase, cfg, data_list, af, fault, run, fz, lin, sh>>

\* dataset.feature_dim
QueryDatasetFeatureDim ==
    /\ phase = "ready"
    /\ LET d == DatasetFeatureDim(af)
       IN  ret' = [op |-> "PPASRDataset.feature_dim", outcome |-> d.outcome,
                   val |-> d.val]
    /\ UNCHANGED <<phase, cfg, data_list, af, fault, run, fz, lin, sh>>

\* featurizer.feature_dim
QueryFeatureDim ==
    /\ af.built
    /\ LET d == FeatureDim(af)
       IN  ret' = [op |-> "AudioFeaturizer.feature_dim", outcome |-> d.outcome,
                   val |-> d.val]
    /\ UNCHANGED <<phase, cfg, data_list, af, fault, run, fz, lin, sh>>

\* ------------------------------------------- direct calls of the featurizer
SampleRates == {8000, 16000, 32000}
TargetRates == {8000, 16000}
SegmentLens == {100, 320, 480, 800}
FrameMs == {10, 20, 25}

NoCall == [called |-> FALSE, pending |-> FALSE]

\* featurizer.featurize(segment, allow_downsampling, allow_upsampling)
FeaturizeCall(sample_rate, n, allow_downsampling, allow_upsampling) ==
    /\ af.built
    /\ fz' = [called |-> TRUE, sample_rate |-> sample_rate, num_samples |-> n,
              allow_downsampling |-> allow_downsampling,
              allow_upsampling |-> allow_upsampling,
              out |-> Featurize(af, [sample_rate |-> sample_rate, num_samples |-> n],
                                allow_downsampling, allow_upsampling)]
    /\ UNCHANGED <<phase, cfg, data_list, af, ret, fault, run, lin, sh>>

\* AudioFeaturizer._compute_linear(samples, sample_rate, stride_ms, window_ms) on
\* the buffer and the parameters held in lin.
ComputeLinearCall ==
    /\ lin.called = FALSE
    /\ lin.pending
    /\ lin' = [lin EXCEPT !.called = TRUE, !.pending = FALSE,
                          !.out = ComputeLinear(lin.num_samples, lin.sample_rate,
                                                lin.stride_ms, lin.window_ms)]
    /\ UNCHANGED <<phase, cfg, data_list, af, ret, fault, run, fz, sh>>

\* ------------------------------------------------- ShiftPerturbAugmentor
\* The generator (random.Random): a state that every draw advances, and the
\* number of draws made so far (kept up to MaxCalls).
RngStates == 0 .. RngMod - 1
NewRng(seed) == [state |-> seed % RngMod, drawn |-> 0]
RngAdvance(rng) == [state |-> (rng.state + 1) % RngMod,
                    drawn |-> Min(rng.drawn + 1, MaxCalls)]

\* rng.uniform(a, b) = a + (b - a) * rng.random(), random() being state / RngMod.
Uniform(rng, a, b) ==
    [value |-> a + ((b - a) * rng.state) \div RngMod, rng |-> RngAdvance(rng)]

\* AudioSegment.shift(shift_ms), one sample per millisecond: the content moves by
\* shift_ms samples (positive = later), what leaves the buffer is dropped and what
\* enters it is silence.
Shift(segment, shift_ms) ==
    [segment EXCEPT
        !.samples = [i \in 1 .. Len(segment.samples) |->
                        IF i - shift_ms \in 1 .. Len(segment.samples)
                        THEN segment.samples[i - shift_ms] ELSE 0],
        !.shift_calls = Append(@, shift_ms)]

\* ShiftPerturbAugmentor.__init__
ShiftPerturbAugmentorInit(min_shift_ms, max_shift_ms) ==
    [min_shift_ms |-> min_shift_ms, max_shift_ms |-> max_shift_ms]

\* transform_audio drawing a second value and shifting by that one.
ShiftTransformAudioSecondDraw(aug, rng, segment) ==
    LET first == Uniform(rng, aug.min_shift_ms, aug.max_shift_ms)
        draw == Uniform(first.rng, aug.min_shift_ms, aug.max_shift_ms)
    IN  [aug |-> aug, rng |-> draw.rng, segment |-> Shift(segment, draw.value)]

\* ShiftPerturbAugmentor.transform_audio
ShiftTransformAudio(aug, rng, segment) ==
    LET draw == Uniform(rng, aug.min_shift_ms, aug.max_shift_ms)
    IN  [aug |-> aug, rng |-> draw.rng, segment |-> Shift(segment, draw.value)]

\* AugmentationPipeline.transform_audio: every step in configured order, all
\* drawing from the one generator of the pipeline.
RECURSIVE PipelineTransformAudio(_, _, _)
PipelineTransformAudio(augmentors, rng, segment) ==
    IF augmentors = <<>> THEN [rng |-> rng, segment |-> segment]
    ELSE LET r == ShiftTransformAudio(Head(augmentors), rng, segment)
         IN  PipelineTransformAudio(Tail(augmentors), r.rng, r.segment)

\* AugmentationPipeline.transform_feature: a shift step has no feature-level
\* capability and is skipped.
PipelineTransformFeature(augmentors, rng, feature) ==
    [rng |-> rng, feature |-> [feature EXCEPT !.augmented = TRUE]]

ShiftBounds == -2 .. 2
ShiftSamples == {<<1, 2, 3>>, <<5, 0, 7>>}

\* augmentor.transform_audio(segment) on the augmentor of sh.
ShiftCall ==
    /\ sh.rng.drawn < MaxCalls
    /\ LET r == ShiftTransformAudio(sh.aug, sh.rng, sh.segment)
       IN  sh' = [aug |-> r.aug, rng |-> r.rng, segment |-> r.segment]
    /\ UNCHANGED <<phase, cfg, data_list, af, ret, fault, run, fz, lin>>

\* ------------------------------------------------ PPASRDataset.__getitem__
Runs == {1, 2}

\* The try block with the transcript tokenized last.
TryBodyTokenizeLast == <<"lookup", "from_file", "transform_audio", "audio_featurize",
                         "normalize", "transform_feature", "text_featurize", "return">>

\* The statements of the try block, in program order.
TryBody == <<"lookup", "from_file", "transform_audio", "audio_featurize",
             "text_featurize", "normalize", "transform_feature", "return">>

\* The statements a corrupt file or transcript can make raise.
FaultAt == {"none", "from_file", "transform_audio", "audio_featurize",
            "text_featurize", "normalize", "transform_feature"}

\* list[i] of Python, rows counted from 0 and negative indices from the end.
ValidIndex(i, n) == -n <= i /\ i < n
PyIndex(list, i) == IF i >= 0 THEN list[i + 1] ELSE list[Len(list) + i + 1]

\* The decoded content of an audio file.
FileSamples(path) == IF path = "a.wav" THEN <<1, 2, 3>> ELSE <<5, 0, 7>>

\* AudioSegment.from_file
FromFileSegment(path) == [src |-> path, samples |-> FileSamples(path), shift_calls |-> <<>>]

\* The noise the Kaldi front end adds to the frames: none without dither.
KaldiNoise(dither) == IF dither = 0 THEN {0} ELSE {-1, 0, 1}

\* What featurize(audio_segment) returns to __getitem__ (both resampling
\* directions allowed): the extraction method decides whether dither applies.
FeaturizeNoise(f) ==
    IF f.feature_method \in {"mfcc", "fbank"} THEN KaldiNoise(Dither(f)) ELSE {0}

NoFrame == [mode |-> "idle", pc |-> 1, idx |-> 0, idx0 |-> 0, depth |-> 0,
            trace |-> <<>>, entry |-> <<>>, segment |-> <<>>, feature |-> <<>>,
            transcript |-> <<>>, failed |-> <<>>, logged |-> <<>>,
            result |-> <<>>, rng |-> NewRng(0), rng0 |-> NewRng(0)]

\* A fresh invocation of __getitem__(i): the frame of a call or of a retry.
Frame(st, i) == [st EXCEPT !.mode = "try", !.pc = 1, !.idx = i, !.trace = <<>>,
                           !.entry = <<>>, !.segment = <<>>, !.feature = <<>>,
                           !.transcript = <<>>]

Stmt(r) == TryBody[run[r].pc]
At(r, stmt) == run[r].mode = "try" /\ Stmt(r) = stmt

\* The statement at pc has run to its end.
Advance(st) == [st EXCEPT !.pc = @ + 1, !.trace = Append(@, TryBody[st.pc])]
\* The statement at pc has raised: control is in the except clause.
Raise(st) == [st EXCEPT !.mode = "except", !.trace = Append(@, TryBody[st.pc]),
                        !.failed = st.entry]

Rest == <<phase, cfg, data_list, af, ret, fault, fz, lin, sh>>

\* dataset[i], called by the loader.
Call(r, i) ==
    /\ phase = "ready"
    /\ run[r].mode = "idle"
    /\ run' = [run EXCEPT ![r] = [Frame(NoFrame, i) EXCEPT !.idx0 = i, !.rng = run[r].rng,
                                                           !.rng0 = run[r].rng]]
    /\ UNCHANGED Rest

\* dataset[i] again, after an earlier call has returned or raised.
CallAgain(r, i) ==
    /\ phase = "ready"
    /\ run[r].mode \in {"returned", "raised"}
    /\ run' = [run EXCEPT ![r] = [Frame(NoFrame, i) EXCEPT !.idx0 = i, !.rng = run[r].rng,
                                                           !.rng0 = run[r].rng]]
    /\ UNCHANGED Rest

\* audio_file, transcript = self.data_list[idx]
Lookup(r) ==
    /\ At(r, "lookup")
    /\ run' = [run EXCEPT ![r] =
                 IF ValidIndex(@.idx, Len(data_list))
                 THEN Advance([@ EXCEPT !.entry = PyIndex(data_list, run[r].idx)])
                 ELSE Raise(@)]
    /\ UNCHANGED Rest

\* audio_segment = AudioSegment.from_file(audio_file)
FromFile(r) ==
    /\ At(r, "from_file")
    /\ run' = [run EXCEPT ![r] =
                 IF fault[@.entry[1]] = "from_file" THEN Raise(@)
                 ELSE Advance([@ EXCEPT !.segment = FromFileSegment(run[r].entry[1])])]
    /\ UNCHANGED Rest

\* self._augmentation_pipeline.transform_audio(audio_segment)
TransformAudio(r) ==
    /\ At(r, "transform_audio")
    /\ LET t == PipelineTransformAudio(cfg.augmentation, run[r].rng, run[r].segment)
       IN  run' = [run EXCEPT ![r] =
                     IF fault[@.entry[1]] = "transform_audio"
                     THEN Raise([@ EXCEPT !.rng = t.rng])
                     ELSE Advance([@ EXCEPT !.rng = t.rng, !.segment = t.segment])]
    /\ UNCHANGED Rest

\* feature = self._audio_featurizer.featurize(audio_segment)
AudioFeaturize(r) ==
    /\ At(r, "audio_featurize")
    /\ \E noise \in FeaturizeNoise(af) :
         run' = [run EXCEPT ![r] =
                   IF \/ fault[@.entry[1]] = "audio_featurize"
                      \/ af.feature_method \notin SupportedMethods
                   THEN Raise(@)
                   ELSE Advance([@ EXCEPT !.feature =
                                   [segment |-> run[r].segment,
                                    method |-> af.feature_method, noise |-> noise,
                                    normalized |-> FALSE, augmented |-> FALSE,
                                    dtype |-> "float64"]])]
    /\ UNCHANGED Rest

\* transcript = self._text_featurizer.featurize(transcript)
TextFeaturize(r) ==
    /\ At(r, "text_featurize")
    /\ run' = [run EXCEPT ![r] =
                 IF fault[@.entry[1]] = "text_featurize" THEN Raise(@)
                 ELSE Advance([@ EXCEPT !.transcript =
                                 [tokens_of |-> run[r].entry[2], dtype |-> "list"]])]
    /\ UNCHANGED Rest

\* feature = self._normalizer.apply(feature)
Normalize(r) ==
    /\ At(r, "normalize")
    /\ run' = [run EXCEPT ![r] =
                 IF fault[@.entry[1]] = "normalize" THEN Raise(@)
                 ELSE Advance([@ EXCEPT !.feature.normalized = TRUE])]
    /\ UNCHANGED Rest

\* feature = self._augmentation_pipeline.transform_feature(feature)
TransformFeature(r) ==
    /\ At(r, "transform_feature")
    /\ LET t == PipelineTransformFeature(cfg.augmentation, run[r].rng, run[r].feature)
       IN  run' = [run EXCEPT ![r] =
                     IF fault[@.entry[1]] = "transform_feature" THEN Raise(@)
                     ELSE Advance([@ EXCEPT !.rng = t.rng, !.feature = t.feature])]
    /\ UNCHANGED Rest

\* transcript = np.array(transcript, dtype=np.int32)
\* return feature.astype(np.float32), transcript
Return(r) ==
    /\ At(r, "return")
    /\ run' = [run EXCEPT ![r] =
                 [@ EXCEPT !.mode = "returned",
                           !.trace = Append(@, "return"),
                           !.result = <<[run[r].feature EXCEPT !.dtype = "float32"],
                                        [run[r].transcript EXCEPT !.dtype = "int32"]>>]]
    /\ UNCHANGED Rest

\* The except clause when self.data_list[idx] cannot be formatted for the log
\* (IndexError) or np.random.randint(0) is asked for (ValueError): the exception
\* leaves the handler, and every enclosing frame is itself inside its handler.
ExceptRaise(r) ==
    /\ run[r].mode = "except"
    /\ ~ValidIndex(run[r].idx, Len(data_list)) \/ DatasetLen(data_list) = 0
    /\ run' = [run EXCEPT ![r].mode = "raised"]
    /\ UNCHANGED Rest

\* The except clause drawing from 0 .. len(self) inclusive.
ExceptRetryInclusive(r, rnd_idx) ==
    /\ run[r].mode = "except"
    /\ ValidIndex(run[r].idx, Len(data_list))
    /\ rnd_idx \in 0 .. DatasetLen(data_list)
    /\ run' = [run EXCEPT ![r] =
                 [Frame(@, rnd_idx) EXCEPT !.logged = PyIndex(data_list, run[r].idx),
                                           !.depth = Min(@ + 1, MaxDepth)]]
    /\ UNCHANGED Rest

\* The except clause giving up once the chain is MaxDepth - 1 retries deep.
ExceptRetryLimited(r, rnd_idx) ==
    /\ run[r].mode = "except"
    /\ run[r].depth < MaxDepth - 1
    /\ ValidIndex(run[r].idx, Len(data_list))
    /\ rnd_idx \in 0 .. DatasetLen(data_list) - 1
    /\ run' = [run EXCEPT ![r] =
                 [Frame(@, rnd_idx) EXCEPT !.logged = PyIndex(data_list, run[r].idx),
                                           !.depth = Min(@ + 1, MaxDepth)]]
    /\ UNCHANGED Rest

\* The except clause: log the entry, draw rnd_idx, return self.__getitem__(rnd_idx).
ExceptRetry(r, rnd_idx) ==
    /\ run[r].mode = "except"
    /\ ValidIndex(run[r].idx, Len(data_list))
    /\ rnd_idx \in 0 .. DatasetLen(data_list) - 1
    /\ run' = [run EXCEPT ![r] =
                 [Frame(@, rnd_idx) EXCEPT !.logged = PyIndex(data_list, run[r].idx),
                                           !.depth = Min(@ + 1, MaxDepth)]]
    /\ UNCHANGED Rest

Except(r) == ExceptRaise(r) \/ \E k \in 0 .. MaxLines : ExceptRetry(r, k)

\* ---------------------------------------------------------- specifications
CallIdx == -1 .. MaxLines
GetLines == [audio_filepath : Paths, text : Texts, duration : {5, 25}]
ShiftConfig == <<ShiftPerturbAugmentorInit(-2, 2)>>

DefaultCfg == [manifest |-> <<>>, min_duration |-> DefaultMinDuration,
               max_duration |-> DefaultMaxDuration, feature_method |-> "linear",
               train |-> FALSE, augmentation |-> <<>>]
NoShift == [aug |-> ShiftPerturbAugmentorInit(0, 0), rng |-> NewRng(0),
            segment |-> [src |-> "", samples |-> <<>>, shift_calls |-> <<>>]]

\* Nothing constructed, nothing called.
Blank ==
    /\ phase = "new"
    /\ data_list = <<>>
    /\ af = NoFeaturizer
    /\ ret = NoRet
    /\ fz = NoCall
    /\ lin = NoCall

GetNext(r) ==
    \/ \E i \in CallIdx : Call(r, i)
    \/ Lookup(r)
    \/ FromFile(r)
    \/ TransformAudio(r)
    \/ AudioFeaturize(r)
    \/ TextFeaturize(r)
    \/ Normalize(r)
    \/ TransformFeature(r)
    \/ Return(r)
    \/ Except(r)

\* The manifest filter of the constructor, and len().
InitManifest ==
    /\ Blank
    /\ \E m \in SeqsUpTo(ManifestLines, MaxManifest), mn \in {0, 2}, mx \in {-1, 20} :
         cfg = [DefaultCfg EXCEPT !.manifest = m, !.min_duration = mn,
                                  !.max_duration = mx]
    /\ fault = [p \in Paths |-> "none"]
    /\ run = [r \in Runs |-> NoFrame]
    /\ sh = NoShift
NextManifest == Construct \/ QueryLen
SpecManifest == InitManifest /\ [][NextManifest]_vars

\* The feature method of the constructor, and the feature_dim queries.
InitConfig ==
    /\ Blank
    /\ \E m \in SeqsUpTo(GetLines, MaxLines), fm \in Methods, tr \in BOOLEAN :
         cfg = [DefaultCfg EXCEPT !.manifest = m, !.feature_method = fm, !.train = tr]
    /\ fault = [p \in Paths |-> "none"]
    /\ run = [r \in Runs |-> NoFrame]
    /\ sh = NoShift
NextConfig == Construct \/ QueryFeatureDim \/ QueryDatasetFeatureDim \/ QueryLen
SpecConfig == InitConfig /\ [][NextConfig]_vars

\* One loader calling dataset[i] again and again, over files some of which are
\* corrupt.
InitGet ==
    /\ Blank
    /\ \E m \in SeqsUpTo(GetLines, MaxLines) : cfg = [DefaultCfg EXCEPT !.manifest = m]
    /\ fault \in [Paths -> FaultAt]
    /\ run = [r \in Runs |-> NoFrame]
    /\ sh = NoShift
NextGet == Construct \/ GetNext(1) \/ \E i \in CallIdx : CallAgain(1, i)
SpecGet == InitGet /\ [][NextGet]_vars

\* The same over fewer manifests and faults, with every statement eventually run
\* and every index that np.random.randint can return drawn again and again.
LiveLines == [audio_filepath : Paths, text : Texts, duration : {5}]
LiveFaultAt == {"none", "from_file", "transform_feature"}
InitLive ==
    /\ Blank
    /\ \E m \in SeqsUpTo(LiveLines, MaxLines) : cfg = [DefaultCfg EXCEPT !.manifest = m]
    /\ fault \in [Paths -> LiveFaultAt]
    /\ run = [r \in Runs |-> NoFrame]
    /\ sh = NoShift
LiveGet ==
    /\ InitLive
    /\ [][NextGet]_vars
    /\ WF_vars(Lookup(1) \/ FromFile(1) \/ TransformAudio(1) \/ AudioFeaturize(1)
               \/ TextFeaturize(1) \/ Normalize(1) \/ TransformFeature(1)
               \/ Return(1) \/ ExceptRaise(1))
    /\ \A k \in 0 .. MaxLines : SF_vars(ExceptRetry(1, k))

\* Two executions of the program over the same manifest and files, each making
\* one call; the second is followed once the first has come to rest.
DetManifests ==
    {<<[audio_filepath |-> "a.wav", text |-> "ni hao", duration |-> 5]>>,
     <<[audio_filepath |-> "a.wav", text |-> "ni hao", duration |-> 5],
       [audio_filepath |-> "b.wav", text |-> "ni hao", duration |-> 25],
       [audio_filepath |-> "b.wav", text |-> "ni hao", duration |-> 5]>>}
DetFaults == {[p \in Paths |-> "none"],
              [p \in Paths |-> IF p = "b.wav" THEN "normalize" ELSE "none"]}
InitDet ==
    /\ Blank
    /\ \E m \in DetManifests, fm \in SupportedMethods, tr \in BOOLEAN :
         cfg = [DefaultCfg EXCEPT !.manifest = m, !.feature_method = fm, !.train = tr,
                                  !.augmentation = ShiftConfig]
    /\ fault \in DetFaults
    /\ \E seed \in RngStates :
         run = [r \in Runs |-> [NoFrame EXCEPT !.rng = NewRng(seed), !.rng0 = NewRng(seed)]]
    /\ sh = NoShift
NextDet ==
    \/ Construct
    \/ GetNext(1)
    \/ run[1].mode \in {"returned", "raised"} /\ GetNext(2)
SpecDet == InitDet /\ [][NextDet]_vars

\* Direct calls of featurize on featurizers of every configuration.
InitRate ==
    /\ phase = "new"
    /\ cfg = DefaultCfg
    /\ data_list = <<>>
    /\ \E fm \in Methods, t \in TargetRates :
         af = AudioFeaturizerInit(fm, DefaultStrideMs, DefaultWindowMs, t, FALSE)
    /\ ret = NoRet
    /\ fault = [p \in Paths |-> "none"]
    /\ run = [r \in Runs |-> NoFrame]
    /\ fz = NoCall
    /\ lin = NoCall
    /\ sh = NoShift
NextRate ==
    \E sr \in SampleRates, n \in SegmentLens, down \in BOOLEAN, up \in BOOLEAN :
        FeaturizeCall(sr, n, down, up)
SpecRate == InitRate /\ [][NextRate]_vars

\* Direct calls of _compute_linear on buffers of every length up to MaxSamples.
InitLinear ==
    /\ phase = "new"
    /\ cfg = DefaultCfg
    /\ data_list = <<>>
    /\ af = NoFeaturizer
    /\ ret = NoRet
    /\ fz = NoCall
    /\ fault = [p \in Paths |-> "none"]
    /\ run = [r \in Runs |-> NoFrame]
    /\ sh = NoShift
    /\ \E n \in 0 .. MaxSamples, sr \in TargetRates, w \in FrameMs :
         lin = [called |-> FALSE, pending |-> TRUE, num_samples |-> n,
                sample_rate |-> sr, stride_ms |-> DefaultStrideMs, window_ms |-> w,
                out |-> <<>>]
NextLinear == ComputeLinearCall
SpecLinear == InitLinear /\ [][NextLinear]_vars

\* A shift augmentor of any parameters, called up to MaxCalls times.
InitShift ==
    /\ Blank
    /\ cfg = DefaultCfg
    /\ fault = [p \in Paths |-> "none"]
    /\ run = [r \in Runs |-> NoFrame]
    /\ \E mn \in ShiftBounds, mx \in ShiftBounds, seed \in RngStates, s \in ShiftSamples :
         sh = [aug |-> ShiftPerturbAugmentorInit(mn, mx), rng |-> NewRng(seed),
               segment |-> [src |-> "direct", samples |-> s, shift_calls |-> <<>>]]
NextShift == ShiftCall
SpecShift == InitShift /\ [][NextShift]_vars

\* ------------------------------------------------------------------ claims

\* C4: featurize raises the unsupported-sample-rate error exactly when the
\* segment is above the target rate with downsampling disallowed or below it
\* with upsampling disallowed: never at the target rate, always at another rate
\* with both disallowed; a call that passes the check has the segment at the
\* target rate, and resample is called exactly when the rates differ and the
\* needed direction is allowed.
C4_RateErrorExactly ==
    fz.called =>
        LET t == af.target_sample_rate
            sr == fz.sample_rate
            raised == fz.out.outcome = "ValueError: sample rate"
        IN  /\ raised <=> \/ sr > t /\ ~fz.allow_downsampling
                          \/ sr < t /\ ~fz.allow_upsampling
            /\ sr = t => ~raised
            /\ (sr # t /\ ~fz.allow_downsampling /\ ~fz.allow_upsampling) => raised
            /\ ~raised => fz.out.segment.sample_rate = t
            /\ fz.out.resampled <=> \/ sr > t /\ fz.allow_downsampling
                                    \/ sr < t /\ fz.allow_upsampling

\* C4 witness: a segment above the target rate, upsampling allowed, downsampling
\* not: the call has raised.
C4_Witness ==
    /\ fz.called
    /\ fz.sample_rate > af.target_sample_rate
    /\ fz.allow_upsampling /\ ~fz.allow_downsampling
    /\ fz.out.outcome = "ValueError: sample rate"

\* The manifest lines the constructor is to keep.
KeptLines ==
    {i \in 1 .. Len(cfg.manifest) :
        /\ cfg.manifest[i].duration >= cfg.min_duration
        /\ cfg.max_duration = -1 \/ cfg.manifest[i].duration <= cfg.max_duration}

\* C5: after construction data_list is the subsequence of the manifest lines
\* with min_duration <= duration and (max_duration = -1 or duration <=
\* max_duration), in the manifest's order, each as (audio_filepath, text); len()
\* is their number; durations 1, 5, 25 under limits 2 and 20 keep the 5 alone.
C5_ManifestFilter ==
    phase = "ready" =>
        /\ Len(data_list) = Cardinality(KeptLines)
        /\ \E f \in [1 .. Len(data_list) -> KeptLines] :
              /\ \A i, j \in 1 .. Len(data_list) : i < j => f[i] < f[j]
              /\ \A j \in 1 .. Len(data_list) :
                    data_list[j] = <<cfg.manifest[f[j]].audio_filepath,
                                     cfg.manifest[f[j]].text>>
        /\ ret.op = "PPASRDataset.__len__" => ret.val = Cardinality(KeptLines)
        /\ ( /\ [i \in 1 .. Len(cfg.manifest) |-> cfg.manifest[i].duration] = <<1, 5, 25>>
             /\ cfg.min_duration = 2 /\ cfg.max_duration = 20 )
           => data_list = << <<cfg.manifest[2].audio_filepath, cfg.manifest[2].text>> >>

\* C5 witness: the manifest of durations 1, 5, 25 read under limits 2 and 20,
\* and len() answered 1.
C5_Witness ==
    /\ phase = "ready"
    /\ [i \in 1 .. Len(cfg.manifest) |-> cfg.manifest[i].duration] = <<1, 5, 25>>
    /\ cfg.min_duration = 2 /\ cfg.max_duration = 20
    /\ ret.op = "PPASRDataset.__len__" /\ ret.val = 1
    /\ Len(data_list) = 1

\* C6: a feature method outside linear, mfcc, fbank is rejected at construction,
\* so no constructed featurizer holds one and no query ever raises the
\* unsupported-feature-method error.
C6_BadMethodRejectedAtConstruction ==
    /\ af.built => af.feature_method \in SupportedMethods
    /\ ret.outcome # "Exception"

C8_LinearShape ==
    lin.called =>
        /\ lin.out.outcome = "ok"
        /\ (lin.out.kept - lin.out.window_size) % lin.out.stride_size = 0
        /\ lin.out.cols =
              (lin.num_samples - lin.out.window_size) \div lin.out.stride_size + 1
        /\ (lin.sample_rate = 16000 /\ lin.window_ms = 20) => lin.out.rows = 161

\* What holds of _compute_linear: the same, for buffers of at least two frames;
\* a shorter buffer makes it raise.
LinearShapeFromTwoFrames ==
    lin.called =>
        /\ lin.out.outcome = "ok"
              <=> lin.num_samples >= lin.out.window_size + lin.out.stride_size
        /\ lin.out.outcome = "ok" =>
              /\ (lin.out.kept - lin.out.window_size) % lin.out.stride_size = 0
              /\ lin.out.cols =
                    (lin.num_samples - lin.out.window_size) \div lin.out.stride_size + 1
              /\ (lin.sample_rate = 16000 /\ lin.window_ms = 20) => lin.out.rows = 161

\* The named steps of the current invocation of __getitem__, in the order they ran.
NamedSteps(r) ==
    SelectSeq(run[r].trace, LAMBDA x : x \in FaultAt)
IsPrefix(a, b) == Len(a) <= Len(b) /\ \A i \in 1 .. Len(a) : a[i] = b[i]

\* C1 as stated: a call that completes has loaded, transformed the audio,
\* featurized, normalized, transformed the feature and only then tokenized.
C1_TokenizeLast ==
    run[1].mode = "returned" =>
        NamedSteps(1) = <<"from_file", "transform_audio", "audio_featurize",
                          "normalize", "transform_feature", "text_featurize">>

\* C1 amended: the steps of an invocation run in the order load, transform_audio,
\* featurize, tokenize, normalize, transform_feature, each after the one before
\* has finished; a call that completes has run all six.
C1_StepOrder ==
    LET order == <<"from_file", "transform_audio", "audio_featurize",
                   "text_featurize", "normalize", "transform_feature">>
    IN  /\ IsPrefix(NamedSteps(1), order)
        /\ run[1].mode = "returned" => NamedSteps(1) = order

\* C1 witness: a call has completed at the first attempt.
C1_Witness ==
    /\ run[1].mode = "returned"
    /\ run[1].depth = 0
    /\ Len(run[1].trace) = Len(TryBody)

\* C2 as stated: no exception ever leaves __getitem__.
C2_NoExceptionEscapes == run[1].mode # "raised"

\* C2 amended: when the index is one the list resolves (-len <= index < len), a
\* raising step is logged with the entry that was being assembled and retried
\* with an index of 0 .. len - 1, and no exception leaves __getitem__; an
\* exception leaves it only for an index out of that range, at the first attempt.
C2_ValidIndexNeverRaises ==
    /\ run[1].mode = "raised" =>
          /\ ~ValidIndex(run[1].idx0, Len(data_list))
          /\ run[1].depth = 0
    /\ run[1].depth > 0 =>
          /\ run[1].idx \in 0 .. Len(data_list) - 1
          /\ ValidIndex(run[1].idx0, Len(data_list))
          /\ \E i \in 1 .. Len(data_list) : run[1].logged = data_list[i]
          /\ run[1].mode # "except" => run[1].logged = run[1].failed

\* C2 witness: a step has raised on an entry, the entry was logged, and the call
\* has returned the sample of a retry.
C2_Witness ==
    /\ run[1].mode = "returned"
    /\ run[1].depth > 0
    /\ run[1].logged # <<>>
    /\ fault[run[1].logged[1]] # "none"

\* The retained entries that assemble without a failure.
GoodEntries == {i \in 1 .. Len(data_list) : fault[data_list[i][1]] = "none"}
InCall(r) == run[r].mode \in {"try", "except"}
SampleOf(result, entry) ==
    /\ result[1].segment.src = entry[1]
    /\ result[2].tokens_of = entry[2]

\* C3: retries are unlimited and drawn from all of 0 .. len - 1.  With one
\* retained entry that assembles, a call with a valid index eventually returns,
\* and what it returns is the sample of a retained entry that assembles; with
\* none, the call never returns and the retry chain grows to any depth.
C3_RetryUntilGood ==
    /\ [](( /\ InCall(1) /\ ValidIndex(run[1].idx0, Len(data_list))
            /\ GoodEntries # {} )
          => <>(run[1].mode = "returned"))
    /\ [](run[1].mode = "returned" =>
            \E i \in GoodEntries : SampleOf(run[1].result, data_list[i]))
    /\ [](( /\ InCall(1) /\ ValidIndex(run[1].idx0, Len(data_list))
            /\ GoodEntries = {} )
          => <>(InCall(1) /\ run[1].depth = MaxDepth))

\* C3 witness: over one corrupt and one sound file, a call has returned after
\* MaxDepth retries: all but the last of them drew the index that had just failed.
C3_Witness ==
    /\ run[1].mode = "returned"
    /\ run[1].depth = MaxDepth
    /\ ValidIndex(run[1].idx0, Len(data_list))
    /\ Len(data_list) = 2
    /\ Cardinality(GoodEntries) = 1
    /\ fault[run[1].logged[1]] # "none"

BothReturnedAlike ==
    /\ \A r \in Runs : run[r].mode = "returned" /\ run[r].depth = 0
    /\ run[1].idx0 = run[2].idx0
    /\ run[1].rng0 = run[2].rng0

\* C9 as stated: two executions from the same manifest, index and generator
\* state, neither retrying, return equal samples, whatever the method and mode.
C9_Deterministic ==
    BothReturnedAlike => run[1].result = run[2].result

\* C9 amended: they return equal samples when the method is linear, or the mode
\* is evaluation; mfcc and fbank in training mode add dither noise that the
\* generator of the augmentation pipeline does not decide.
C9_DeterministicWithoutDither ==
    (BothReturnedAlike /\ ~(af.train /\ af.feature_method \in {"mfcc", "fbank"}))
        => run[1].result = run[2].result

\* C9 witness: two executions in evaluation mode with mfcc have returned the
\* same sample, shifted by the value the generator gave.
C9_Witness ==
    /\ BothReturnedAlike
    /\ ~af.train /\ af.feature_method = "mfcc"
    /\ run[1].result = run[2].result
    /\ run[1].result[1].segment.shift_calls = <<-1>>

LastShift(x) == x.segment.shift_calls[Len(x.segment.shift_calls)]

=============================================================================
